---------------------------- MODULE Spec2Model ----------------------------
(***************************************************************************)
(* taiwu-backup: the Taiwu backup engine (src/src/lib.rs) and its host     *)
(* (src/src/main.rs).                                                      *)
(*                                                                         *)
(* Paths are sequences of components.  The save tree, the backup tree and  *)
(* the wall clock are the environment; the notify crate's watcher is an    *)
(* object that, while alive, holds the sending end of the channel whose    *)
(* receiving end watch() iterates over.  Dropping the watcher is taken to  *)
(* stop the OS watch and close the sending end in the same step: no        *)
(* message is delivered by a watcher that has been dropped.                *)
(*                                                                         *)
(* The clock is the system's wall clock: a backup can read any time, one   *)
(* earlier than or equal to a reading before it included.                  *)
(*                                                                         *)
(* Seven specifications share the actions:                                 *)
(*   Spec         the library under concurrent watch() and unwatch() calls *)
(*   SpecRace     the same callers, up to the first message delivered      *)
(*   SpecOnce     one backup_once() call over every save tree              *)
(*   SpecAgain    backup_once() called repeatedly                          *)
(*   SpecProcess  one watch() call and its first message, of any kind      *)
(*   SpecBoth     backup_once() calls and one watch() call                 *)
(*   SpecHost     main.rs: Taiwu::new(), startup backup, one watch thread, *)
(*                the tray thread calling unwatch(); with the threads'     *)
(*                fairness                                                 *)
(***************************************************************************)
EXTENDS Integers, Sequences, FiniteSets, TLC

(* ------------------------------ constants ------------------------------ *)

TAIWU_GAME_SAVE_WORLD_NUMBER_MAX == 5

TAIWU_GAME_SAVE_ROOT_NAME == "Save"

TAIWU_GAME_SAVE_FILE_NAME == "local.sav"

(* ------------------------------- bounds -------------------------------- *)

\* watch() calls made on the one Taiwu instance
MaxSessions == 2

\* threads that may call unwatch()
MaxUnwatchers == 2

\* messages the watcher can hold in the channel at once
MaxQueue == 2

\* messages delivered in one run of the host program
MaxEvents == 2

\* messages delivered over all channels in one run of the library under
\* concurrent callers
MaxLibEvents == 1

\* backup_once() calls in one run
MaxOnce == 2

\* distinct readings the wall clock can give in one run
MaxTime == 3

\* paths one event can carry
MaxPaths == 2

(* ------------------------------- paths --------------------------------- *)

Slots == 1..TAIWU_GAME_SAVE_WORLD_NUMBER_MAX

\* Taiwu.game_root and Taiwu.backup_root, fixed at construction
game_root == <<"game">>

backup_root == <<"data", "TaiwuBackup", "BackupData">>

\* PathBuf::join of one component
Join(path, name) == Append(path, name)

\* Path::parent and Path::file_name of a path with at least two components
Parent(path) == SubSeq(path, 1, Len(path) - 1)

FileName(path) == path[Len(path)]

save_root == Join(game_root, TAIWU_GAME_SAVE_ROOT_NAME)

\* format!("world_{}", world)
WorldFolder(world) == "world_" \o ToString(world)

save_file(world) ==
    Join(Join(save_root, WorldFolder(world)), TAIWU_GAME_SAVE_FILE_NAME)

is_save_file(path) ==
    \E world \in 1..TAIWU_GAME_SAVE_WORLD_NUMBER_MAX : path = save_file(world)

\* fault variant of new_backup_file_name: the timestamp taken at a coarser
\* resolution than the clock's
new_backup_file_name_coarse(timestamp) ==
    TAIWU_GAME_SAVE_FILE_NAME \o "." \o ToString((timestamp + 1) \div 2)

\* format!("{}.{}", TAIWU_GAME_SAVE_FILE_NAME, timestamp)
new_backup_file_name(timestamp) ==
    TAIWU_GAME_SAVE_FILE_NAME \o "." \o ToString(timestamp)

\* fault variant of BackupDst: the slot folder is left out
BackupDstFlat(src, timestamp) ==
    Join(backup_root, new_backup_file_name(timestamp))

\* dst of backup(src) when the clock reads timestamp
BackupDst(src, timestamp) ==
    Join(Join(backup_root, FileName(Parent(src))),
         new_backup_file_name(timestamp))


(* ------------------------------- events -------------------------------- *)

\* notify::EventKind, flattened; ModifyKind::Any is the generic
\* "content changed" signal
ModifyKinds ==
    {"Modify(Any)", "Modify(Name(From))", "Modify(Name(To))",
     "Modify(Data(Content))", "Modify(Metadata(Any))"}

EventKinds == ModifyKinds \cup {"Create(File)", "Remove(File)", "Access(Any)"}

Event(kind, paths) == [kind |-> kind, paths |-> paths]

NoEvent == Event("none", <<>>)

\* what the channel carries: notify::Result<Event>
OkMsg(event) == [ok |-> TRUE, event |-> event]

ErrMsg == [ok |-> FALSE, event |-> NoEvent]

\* paths under the watched directory that are no save file
OtherPaths ==
    {Join(Join(save_root, WorldFolder(1)), "local.sav.tmp"),
     Join(Join(save_root, WorldFolder(TAIWU_GAME_SAVE_WORLD_NUMBER_MAX + 1)),
          TAIWU_GAME_SAVE_FILE_NAME)}

WatchedPaths == {save_file(k) : k \in Slots} \cup OtherPaths

\* fault variant of process_action: rename-from is not told apart from the
\* generic modify
process_action_any_name(kind, path) ==
    IF ~is_save_file(path) THEN "continue"
    ELSE IF kind \in ModifyKinds
         THEN IF kind \in {"Modify(Any)", "Modify(Name(From))"} THEN "backup"
              ELSE "unexpected"
         ELSE "not_modify"

\* the decision process() takes for one path of an event
process_action(kind, path) ==
    IF ~is_save_file(path) THEN "continue"
    ELSE IF kind \in ModifyKinds
         THEN IF kind = "Modify(Any)" THEN "backup"
              ELSE IF kind = "Modify(Name(From))" THEN "rename_from"
              ELSE "unexpected"
         ELSE "not_modify"

(* -------------------------------- state -------------------------------- *)

VARIABLES
    saves,      \* slots whose save file exists as a file
    store,      \* files of the backup tree: [path, by], by the log index
    dirs,       \* directories created under the backup root
    clock,      \* the last reading of the wall clock
    log,        \* every backup() invocation, in order: the caller, the
                \* clock reading, the paths and the outcome
    watcher,    \* Taiwu.watcher: 0 is None, s is Some(watcher of call s)
    lock,       \* the thread holding the Mutex
    alive,      \* RecommendedWatchers created and not dropped
    pc,         \* position of each watch() call
    ret,        \* result of each watch() call
    cur,        \* the event each watch() call is processing
    chan,       \* the channel of each watch() call
    sent,       \* every message delivered to each channel, in order
    nrecv,      \* messages each watch() call has taken from its channel
    asked,      \* watch() calls that were running when unwatch() was called
    upc,        \* position of each unwatch() caller
    once        \* the thread calling backup_once(): in the host, the main
                \* thread, from before Taiwu::new() to its return

fsvars == <<store, dirs, clock, log>>

watchvars ==
    <<watcher, lock, alive, pc, ret, cur, chan, sent, nrecv, asked>>

vars == <<saves, store, dirs, clock, log, watcher, lock, alive, pc, ret,
          cur, chan, sent, nrecv, asked, upc, once>>

Sessions == 1..MaxSessions

Unwatchers == 1..MaxUnwatchers

NoThread == <<"none", 0>>

WatchThread(s) == <<"watch", s>>

UnwatchThread(u) == <<"unwatch", u>>

OnceThread == <<"once", 0>>

RECURSIVE SentUpTo(_)
SentUpTo(s) == IF s = 0 THEN 0 ELSE Len(sent[s]) + SentUpTo(s - 1)

\* messages delivered so far over all channels
Delivered == SentUpTo(MaxSessions)

(* ------------------------------- backup -------------------------------- *)

\* Path::is_file on a path of the save tree
IsFile(path) == \E k \in saves : path = save_file(k)

\* how one backup() call can end: Ok, create_dir_all fails, fs::copy fails
\* writing nothing, fs::copy fails leaving a truncated file
Outcomes == {"ok", "mkdir_err", "copy_err", "copy_partial"}

\* fs::copy reads the source: it cannot write from a source that is no file
CanEnd(src, outcome) == outcome \in {"ok", "copy_partial"} => IsFile(src)

\* the clock read by new_backup_file_name_now(): the system's local
\* wall-clock time, which can be set back and can give one reading twice;
\* any reading can follow any other
WallClock == 1..MaxTime

\* backup(src) by thread `by`, the clock reading `timestamp`
backup(by, ev, src, timestamp, outcome) ==
    LET dst == BackupDst(src, timestamp)
        n == Len(log) + 1
    IN  /\ CanEnd(src, outcome)
        /\ clock' = timestamp
        /\ log' = Append(log, [by |-> by, ev |-> ev, src |-> src,
                               at |-> timestamp, dst |-> dst,
                               res |-> outcome])
        /\ dirs' = IF outcome = "mkdir_err" THEN dirs
                   ELSE dirs \cup {Parent(dst)}
        /\ store' = IF outcome \in {"ok", "copy_partial"}
                    THEN {f \in store : f.path # dst}
                         \cup {[path |-> dst, by |-> n]}
                    ELSE store

(* ----------------------------- backup_once ----------------------------- *)

backup_once_call ==
    /\ once.pc \in {"idle", "done"}
    /\ once.calls < MaxOnce
    /\ once' = [pc |-> "loop", world |-> 1, ret |-> "none",
                calls |-> once.calls + 1, base |-> Len(log)]
    /\ UNCHANGED <<saves, fsvars, watchvars, upc>>

\* fault variant of backup_once_step: the range 1..MAX taken exclusive
backup_once_step_short(readings) ==
    /\ once.pc = "loop"
    /\ IF once.world >= TAIWU_GAME_SAVE_WORLD_NUMBER_MAX
       THEN /\ once' = [once EXCEPT !.pc = "done", !.ret = "Ok"]
            /\ UNCHANGED fsvars
       ELSE LET save == save_file(once.world)
            IN  IF IsFile(save)
                THEN \E t \in readings, o \in Outcomes :
                        /\ backup(OnceThread, once.calls, save, t, o)
                        /\ once' = IF o = "ok"
                                   THEN [once EXCEPT !.world = @ + 1]
                                   ELSE [once EXCEPT !.pc = "done",
                                                     !.ret = "IoError"]
                ELSE /\ once' = [once EXCEPT !.world = @ + 1]
                     /\ UNCHANGED fsvars
    /\ UNCHANGED <<saves, watchvars, upc>>

\* fault variant of backup_once_step: a failed backup is passed over and
\* the loop goes on to the next world
backup_once_step_collect(readings) ==
    /\ once.pc = "loop"
    /\ IF once.world > TAIWU_GAME_SAVE_WORLD_NUMBER_MAX
       THEN /\ once' = [once EXCEPT !.pc = "done", !.ret = "Ok"]
            /\ UNCHANGED fsvars
       ELSE LET save == save_file(once.world)
            IN  IF IsFile(save)
                THEN \E t \in readings, o \in Outcomes :
                        /\ backup(OnceThread, once.calls, save, t, o)
                        /\ once' = [once EXCEPT !.world = @ + 1]
                ELSE /\ once' = [once EXCEPT !.world = @ + 1]
                     /\ UNCHANGED fsvars
    /\ UNCHANGED <<saves, watchvars, upc>>

\* one iteration of the loop over the worlds, or the return after the last
backup_once_step(readings) ==
    /\ once.pc = "loop"
    /\ IF once.world > TAIWU_GAME_SAVE_WORLD_NUMBER_MAX
       THEN /\ once' = [once EXCEPT !.pc = "done", !.ret = "Ok"]
            /\ UNCHANGED fsvars
       ELSE LET save == save_file(once.world)
            IN  IF IsFile(save)
                THEN \E t \in readings, o \in Outcomes :
                        /\ backup(OnceThread, once.calls, save, t, o)
                        /\ once' = IF o = "ok"
                                   THEN [once EXCEPT !.world = @ + 1]
                                   ELSE [once EXCEPT !.pc = "done",
                                                     !.ret = "IoError"]
                ELSE /\ once' = [once EXCEPT !.world = @ + 1]
                     /\ UNCHANGED fsvars
    /\ UNCHANGED <<saves, watchvars, upc>>

(* -------------------------------- watch -------------------------------- *)

\* lines 96-108: the channel and the watcher are created and the watch on
\* save_root is registered; either `?` returns the notify error
watch_new(s) ==
    /\ pc[s] = "idle"
    /\ \A r \in 1..(s - 1) : pc[r] # "idle"
    /\ \/ /\ alive' = alive \cup {s}
          /\ pc' = [pc EXCEPT ![s] = "lock"]
          /\ ret' = ret
       \/ /\ alive' = alive
          /\ pc' = [pc EXCEPT ![s] = "done"]
          /\ ret' = [ret EXCEPT ![s] = "NotifyError"]
    /\ UNCHANGED <<saves, fsvars, watcher, lock, cur, chan, sent, nrecv,
                   asked, upc, once>>

\* line 113, self.watcher.lock()
watch_lock(s) ==
    /\ pc[s] = "lock"
    /\ lock = NoThread
    /\ lock' = WatchThread(s)
    /\ pc' = [pc EXCEPT ![s] = "store"]
    /\ UNCHANGED <<saves, fsvars, watcher, alive, ret, cur, chan, sent,
                   nrecv, asked, upc, once>>

\* fault variant of watch_store: the guard is kept while the call goes on
\* to receive
watch_store_keeps_guard(s) ==
    /\ pc[s] = "store"
    /\ watcher' = s
    /\ alive' = alive \ {watcher}
    /\ lock' = lock
    /\ pc' = [pc EXCEPT ![s] = "recv"]
    /\ UNCHANGED <<saves, fsvars, ret, cur, chan, sent, nrecv, asked, upc,
                   once>>

\* line 113, the assignment: the value stored before is dropped, then the
\* guard is released
watch_store(s) ==
    /\ pc[s] = "store"
    /\ watcher' = s
    /\ alive' = alive \ {watcher}
    /\ lock' = NoThread
    /\ pc' = [pc EXCEPT ![s] = "recv"]
    /\ UNCHANGED <<saves, fsvars, ret, cur, chan, sent, nrecv, asked, upc,
                   once>>

\* fault variant of watch_recv: the closed channel is reported as an
\* error
watch_recv_disconnect_err(s) ==
    /\ pc[s] = "recv"
    /\ \/ /\ chan[s] # <<>>
          /\ Head(chan[s]).ok
          /\ cur' = [cur EXCEPT ![s] = Head(chan[s]).event]
          /\ chan' = [chan EXCEPT ![s] = Tail(chan[s])]
          /\ nrecv' = [nrecv EXCEPT ![s] = @ + 1]
          /\ pc' = [pc EXCEPT ![s] = "process"]
          /\ ret' = ret
       \/ /\ chan[s] # <<>>
          /\ ~Head(chan[s]).ok
          /\ chan' = [chan EXCEPT ![s] = Tail(chan[s])]
          /\ nrecv' = [nrecv EXCEPT ![s] = @ + 1]
          /\ UNCHANGED <<cur, pc, ret>>
       \/ /\ chan[s] = <<>>
          /\ s \notin alive
          /\ pc' = [pc EXCEPT ![s] = "done"]
          /\ ret' = [ret EXCEPT ![s] = "Unknown"]
          /\ UNCHANGED <<cur, chan, nrecv>>
    /\ UNCHANGED <<saves, fsvars, watcher, lock, alive, sent, asked, upc,
                   once>>

\* fault variant of watch_recv: the newest message is taken first
watch_recv_newest(s) ==
    /\ pc[s] = "recv"
    /\ \/ /\ chan[s] # <<>>
          /\ chan[s][Len(chan[s])].ok
          /\ cur' = [cur EXCEPT ![s] = chan[s][Len(chan[s])].event]
          /\ chan' = [chan EXCEPT ![s] = SubSeq(chan[s], 1, Len(chan[s]) - 1)]
          /\ nrecv' = [nrecv EXCEPT ![s] = @ + 1]
          /\ pc' = [pc EXCEPT ![s] = "process"]
          /\ ret' = ret
       \/ /\ chan[s] # <<>>
          /\ ~chan[s][Len(chan[s])].ok
          /\ chan' = [chan EXCEPT ![s] = SubSeq(chan[s], 1, Len(chan[s]) - 1)]
          /\ nrecv' = [nrecv EXCEPT ![s] = @ + 1]
          /\ UNCHANGED <<cur, pc, ret>>
       \/ /\ chan[s] = <<>>
          /\ s \notin alive
          /\ pc' = [pc EXCEPT ![s] = "done"]
          /\ ret' = [ret EXCEPT ![s] = "Ok"]
          /\ UNCHANGED <<cur, chan, nrecv>>
    /\ UNCHANGED <<saves, fsvars, watcher, lock, alive, sent, asked, upc,
                   once>>

\* fault variant of watch_recv: a delivery error ends the call
watch_recv_err_returns(s) ==
    /\ pc[s] = "recv"
    /\ \/ /\ chan[s] # <<>>
          /\ Head(chan[s]).ok
          /\ cur' = [cur EXCEPT ![s] = Head(chan[s]).event]
          /\ chan' = [chan EXCEPT ![s] = Tail(chan[s])]
          /\ nrecv' = [nrecv EXCEPT ![s] = @ + 1]
          /\ pc' = [pc EXCEPT ![s] = "process"]
          /\ ret' = ret
       \/ /\ chan[s] # <<>>
          /\ ~Head(chan[s]).ok
          /\ chan' = [chan EXCEPT ![s] = <<>>]
          /\ nrecv' = [nrecv EXCEPT ![s] = @ + 1]
          /\ pc' = [pc EXCEPT ![s] = "done"]
          /\ ret' = [ret EXCEPT ![s] = "NotifyError"]
          /\ cur' = cur
       \/ /\ chan[s] = <<>>
          /\ s \notin alive
          /\ pc' = [pc EXCEPT ![s] = "done"]
          /\ ret' = [ret EXCEPT ![s] = "Ok"]
          /\ UNCHANGED <<cur, chan, nrecv>>
    /\ UNCHANGED <<saves, fsvars, watcher, lock, alive, sent, asked, upc,
                   once>>

\* fault variant of watch_recv: the loop ends as soon as the sender is
\* gone, whatever the channel still holds
watch_recv_drop_queued(s) ==
    /\ pc[s] = "recv"
    /\ \/ /\ chan[s] # <<>>
          /\ Head(chan[s]).ok
          /\ cur' = [cur EXCEPT ![s] = Head(chan[s]).event]
          /\ chan' = [chan EXCEPT ![s] = Tail(chan[s])]
          /\ nrecv' = [nrecv EXCEPT ![s] = @ + 1]
          /\ pc' = [pc EXCEPT ![s] = "process"]
          /\ ret' = ret
       \/ /\ chan[s] # <<>>
          /\ ~Head(chan[s]).ok
          /\ chan' = [chan EXCEPT ![s] = Tail(chan[s])]
          /\ nrecv' = [nrecv EXCEPT ![s] = @ + 1]
          /\ UNCHANGED <<cur, pc, ret>>
       \/ /\ s \notin alive
          /\ pc' = [pc EXCEPT ![s] = "done"]
          /\ ret' = [ret EXCEPT ![s] = "Ok"]
          /\ chan' = [chan EXCEPT ![s] = <<>>]
          /\ UNCHANGED <<cur, nrecv>>
    /\ UNCHANGED <<saves, fsvars, watcher, lock, alive, sent, asked, upc,
                   once>>

\* line 115, one step of `for res in rx`: the oldest message, or the end of
\* the loop once the channel is empty and its sender is gone
watch_recv(s) ==
    /\ pc[s] = "recv"
    /\ \/ /\ chan[s] # <<>>
          /\ Head(chan[s]).ok
          /\ cur' = [cur EXCEPT ![s] = Head(chan[s]).event]
          /\ chan' = [chan EXCEPT ![s] = Tail(chan[s])]
          /\ nrecv' = [nrecv EXCEPT ![s] = @ + 1]
          /\ pc' = [pc EXCEPT ![s] = "process"]
          /\ ret' = ret
       \/ /\ chan[s] # <<>>
          /\ ~Head(chan[s]).ok
          /\ chan' = [chan EXCEPT ![s] = Tail(chan[s])]
          /\ nrecv' = [nrecv EXCEPT ![s] = @ + 1]
          /\ UNCHANGED <<cur, pc, ret>>
       \/ /\ chan[s] = <<>>
          /\ s \notin alive
          /\ pc' = [pc EXCEPT ![s] = "done"]
          /\ ret' = [ret EXCEPT ![s] = "Ok"]
          /\ UNCHANGED <<cur, chan, nrecv>>
    /\ UNCHANGED <<saves, fsvars, watcher, lock, alive, sent, asked, upc,
                   once>>

\* fault variant of process: a failed backup is logged and the loop over
\* the paths goes on
process_keeps_going(s, readings) ==
    /\ pc[s] = "process"
    /\ IF cur[s].paths = <<>>
       THEN /\ pc' = [pc EXCEPT ![s] = "recv"]
            /\ cur' = [cur EXCEPT ![s] = NoEvent]
            /\ UNCHANGED <<fsvars, ret, chan>>
       ELSE LET path == Head(cur[s].paths)
                rest == [cur EXCEPT ![s].paths = Tail(cur[s].paths)]
            IN  IF process_action(cur[s].kind, path) = "backup"
                THEN \E t \in readings, o \in Outcomes :
                        /\ backup(WatchThread(s), nrecv[s], path, t, o)
                        /\ cur' = rest
                        /\ UNCHANGED <<pc, ret, chan>>
                ELSE /\ cur' = rest
                     /\ UNCHANGED <<fsvars, pc, ret, chan>>
    /\ UNCHANGED <<saves, watcher, lock, alive, sent, nrecv, asked, upc,
                   once>>

\* fault variant of process: the paths of an event are gone through from
\* the last to the first
process_last_first(s, readings) ==
    /\ pc[s] = "process"
    /\ IF cur[s].paths = <<>>
       THEN /\ pc' = [pc EXCEPT ![s] = "recv"]
            /\ cur' = [cur EXCEPT ![s] = NoEvent]
            /\ UNCHANGED <<fsvars, ret, chan>>
       ELSE LET n == Len(cur[s].paths)
                path == cur[s].paths[n]
                rest == [cur EXCEPT ![s].paths = SubSeq(cur[s].paths, 1, n - 1)]
            IN  IF process_action(cur[s].kind, path) = "backup"
                THEN \E t \in readings, o \in Outcomes :
                        /\ backup(WatchThread(s), nrecv[s], path, t, o)
                        /\ IF o = "ok"
                           THEN /\ cur' = rest
                                /\ UNCHANGED <<pc, ret, chan>>
                           ELSE /\ cur' = [cur EXCEPT ![s] = NoEvent]
                                /\ pc' = [pc EXCEPT ![s] = "done"]
                                /\ ret' = [ret EXCEPT ![s] = "IoError"]
                                /\ chan' = [chan EXCEPT ![s] = <<>>]
                ELSE /\ cur' = rest
                     /\ UNCHANGED <<fsvars, pc, ret, chan>>
    /\ UNCHANGED <<saves, watcher, lock, alive, sent, nrecv, asked, upc,
                   once>>

\* process(event), one path of the event per step; after the last path
\* process returns Ok and the loop goes on
process(s, readings) ==
    /\ pc[s] = "process"
    /\ IF cur[s].paths = <<>>
       THEN /\ pc' = [pc EXCEPT ![s] = "recv"]
            /\ cur' = [cur EXCEPT ![s] = NoEvent]
            /\ UNCHANGED <<fsvars, ret, chan>>
       ELSE LET path == Head(cur[s].paths)
                rest == [cur EXCEPT ![s].paths = Tail(cur[s].paths)]
            IN  IF process_action(cur[s].kind, path) = "backup"
                THEN \E t \in readings, o \in Outcomes :
                        /\ backup(WatchThread(s), nrecv[s], path, t, o)
                        /\ IF o = "ok"
                           THEN /\ cur' = rest
                                /\ UNCHANGED <<pc, ret, chan>>
                           ELSE /\ cur' = [cur EXCEPT ![s] = NoEvent]
                                /\ pc' = [pc EXCEPT ![s] = "done"]
                                /\ ret' = [ret EXCEPT ![s] = "IoError"]
                                /\ chan' = [chan EXCEPT ![s] = <<>>]
                ELSE /\ cur' = rest
                     /\ UNCHANGED <<fsvars, pc, ret, chan>>
    /\ UNCHANGED <<saves, watcher, lock, alive, sent, nrecv, asked, upc,
                   once>>

(* ------------------------------- unwatch ------------------------------- *)

\* a thread calls unwatch()
unwatch_call(u) ==
    /\ upc[u] = "idle"
    /\ upc' = [upc EXCEPT ![u] = "lock"]
    /\ asked' = asked \cup {s \in Sessions : pc[s] \notin {"idle", "done"}}
    /\ UNCHANGED <<saves, fsvars, watcher, lock, alive, pc, ret, cur, chan,
                   sent, nrecv, once>>

\* line 131, self.watcher.lock()
unwatch_lock(u) ==
    /\ upc[u] = "lock"
    /\ lock = NoThread
    /\ lock' = UnwatchThread(u)
    /\ upc' = [upc EXCEPT ![u] = "take"]
    /\ UNCHANGED <<saves, fsvars, watcher, alive, pc, ret, cur, chan, sent,
                   nrecv, asked, once>>

\* fault variant of unwatch_take: the slot is read and its watcher dropped,
\* but the slot is not cleared
unwatch_take_peek(u) ==
    /\ upc[u] = "take"
    /\ watcher' = watcher
    /\ alive' = alive \ {watcher}
    /\ lock' = NoThread
    /\ upc' = [upc EXCEPT ![u] = "idle"]
    /\ UNCHANGED <<saves, fsvars, pc, ret, cur, chan, sent, nrecv, asked,
                   once>>

\* lines 131-134: take() empties the slot, the watcher taken is dropped, the
\* guard is released
unwatch_take(u) ==
    /\ upc[u] = "take"
    /\ watcher' = 0
    /\ alive' = alive \ {watcher}
    /\ lock' = NoThread
    /\ upc' = [upc EXCEPT ![u] = "idle"]
    /\ UNCHANGED <<saves, fsvars, pc, ret, cur, chan, sent, nrecv, asked,
                   once>>

(* ----------------------------- environment ----------------------------- *)

\* the messages the watcher delivers where the run goes beyond the first
\* message
WatchMessages ==
    {OkMsg(Event("Modify(Any)", <<save_file(1)>>)),
     OkMsg(Event("Modify(Any)", <<save_file(3)>>)),
     OkMsg(Event("Modify(Name(From))", <<save_file(1)>>)),
     ErrMsg}

\* a live watcher sends a message; a channel whose receiver is gone takes
\* none; at most `most` messages are delivered in a run
deliver(s, msg, most) ==
    /\ s \in alive
    /\ pc[s] # "done"
    /\ Len(chan[s]) < MaxQueue
    /\ Delivered < most
    /\ chan' = [chan EXCEPT ![s] = Append(chan[s], msg)]
    /\ sent' = [sent EXCEPT ![s] = Append(sent[s], msg)]
    /\ UNCHANGED <<saves, fsvars, watcher, lock, alive, pc, ret, cur, nrecv,
                   asked, upc, once>>

(* ---------------------------- specification ---------------------------- *)

\* Taiwu { game_root, backup_root, watcher: Mutex::new(None) }, nothing
\* called yet, over a save tree holding any of the save files; `at` is the
\* position of the thread that constructs the instance
InitAt(trees, at) ==
    /\ saves \in trees
    /\ store = {}
    /\ dirs = {}
    /\ clock = 0
    /\ log = <<>>
    /\ watcher = 0
    /\ lock = NoThread
    /\ alive = {}
    /\ pc = [s \in Sessions |-> "idle"]
    /\ ret = [s \in Sessions |-> "none"]
    /\ cur = [s \in Sessions |-> NoEvent]
    /\ chan = [s \in Sessions |-> <<>>]
    /\ sent = [s \in Sessions |-> <<>>]
    /\ nrecv = [s \in Sessions |-> 0]
    /\ asked = {}
    /\ upc = [u \in Unwatchers |-> "idle"]
    /\ once = [pc |-> at, world |-> 1, ret |-> "none", calls |-> 0,
               base |-> 0]

\* the instance constructed: Taiwu::new() or Taiwu::with_path() returned Ok
InitWith(trees) == InitAt(trees, "idle")

\* the library driven by any caller: watch() and unwatch() called from any
\* threads at any time, the watcher delivering WatchMessages
Init == InitWith({{1, 3}})

Next ==
    \/ \E s \in Sessions : watch_new(s)
    \/ \E s \in Sessions : watch_lock(s)
    \/ \E s \in Sessions : watch_store(s)
    \/ \E s \in Sessions : watch_recv(s)
    \/ \E s \in Sessions : process(s, WallClock)
    \/ \E u \in Unwatchers : unwatch_call(u)
    \/ \E u \in Unwatchers : unwatch_lock(u)
    \/ \E u \in Unwatchers : unwatch_take(u)
    \/ \E s \in Sessions, msg \in WatchMessages :
            deliver(s, msg, MaxLibEvents)

Spec == Init /\ [][Next]_vars

\* the same callers racing for the handle slot, up to the first message a
\* watcher delivers: a content-modify event whose backup may fail
RaceMessages == {OkMsg(Event("Modify(Any)", <<save_file(1)>>))}

InitRace == InitWith({{1, 3}})

NextRace ==
    \/ \E s \in Sessions : watch_new(s)
    \/ \E s \in Sessions : watch_lock(s)
    \/ \E s \in Sessions : watch_store(s)
    \/ \E s \in Sessions : watch_recv(s)
    \/ \E s \in Sessions : process(s, WallClock)
    \/ \E u \in Unwatchers : unwatch_call(u)
    \/ \E u \in Unwatchers : unwatch_lock(u)
    \/ \E u \in Unwatchers : unwatch_take(u)
    \/ /\ Delivered = 0
       /\ \E s \in Sessions, msg \in RaceMessages : deliver(s, msg, 1)

SpecRace == InitRace /\ [][NextRace]_vars

\* one backup_once() call on its own, over every save tree
InitOnce == InitWith(SUBSET Slots)

NextOnce ==
    \/ /\ once.calls = 0
       /\ backup_once_call
    \/ backup_once_step(WallClock)

SpecOnce == InitOnce /\ [][NextOnce]_vars

\* backup_once() called again and again, over slots 1 and 3
InitAgain == InitWith({{1, 3}})

NextAgain ==
    \/ backup_once_call
    \/ backup_once_step(WallClock)

SpecAgain == InitAgain /\ [][NextAgain]_vars

\* one watch() call and the first message it receives, of any kind over
\* any paths
PathSeqs == UNION {[1..n -> WatchedPaths] : n \in 1..MaxPaths}

AllMessages ==
    {OkMsg(Event(kind, paths)) : kind \in EventKinds, paths \in PathSeqs}
    \cup {ErrMsg}

InitProcess == InitWith({{1, 3}, Slots})

NextProcess ==
    \/ watch_new(1)
    \/ watch_lock(1)
    \/ watch_store(1)
    \/ watch_recv(1)
    \/ process(1, WallClock)
    \/ unwatch_call(1)
    \/ unwatch_lock(1)
    \/ unwatch_take(1)
    \/ /\ Delivered = 0
       /\ \E msg \in AllMessages : deliver(1, msg, 1)

SpecProcess == InitProcess /\ [][NextProcess]_vars

\* backup_once() calls and one watch() call on the same instance
InitBoth == InitWith({{1}, {1, 3}})

NextBoth ==
    \/ backup_once_call
    \/ backup_once_step(WallClock)
    \/ watch_new(1)
    \/ watch_lock(1)
    \/ watch_store(1)
    \/ watch_recv(1)
    \/ process(1, WallClock)
    \/ \E msg \in WatchMessages : deliver(1, msg, MaxLibEvents)

SpecBoth == InitBoth /\ [][NextBoth]_vars

(* -------------------------------- main --------------------------------- *)

\* how Taiwu::new() can end: Ok, one of its two errors, or the panic of
\* game_root.rs line 41 when Steam itself is not found
NewResults ==
    {"Ok", "GameRootNotFound", "BackupRootDefaultNotAvailable", "panic"}

\* main.rs lines 32-38: Taiwu::new(); on an error main logs it and returns,
\* and on the panic the main thread ends: either way the program is over
\* with no startup backup and no watch thread
main_new ==
    /\ once.pc = "new"
    /\ \E r \in NewResults :
            once' = IF r = "Ok" THEN [once EXCEPT !.pc = "idle"]
                    ELSE [once EXCEPT !.pc = "exit", !.ret = r]
    /\ UNCHANGED <<saves, fsvars, watchvars, upc>>

\* main.rs lines 71-77: the quit menu item, there once the instance is
\* constructed, calls unwatch() on the tray thread
main_quit ==
    /\ once.pc \notin {"new", "exit"}
    /\ unwatch_call(1)

\* main.rs line 80: the startup backup, once
main_backup_once ==
    /\ once.calls = 0
    /\ backup_once_call

\* fault variant of main_watch: the watch thread is spawned without regard
\* to the startup backup
main_watch_unordered(s) == watch_new(s)

\* main.rs lines 85-90: the watch thread, spawned after the startup backup
\* returned Ok
main_watch(s) ==
    /\ once.pc = "done"
    /\ once.ret = "Ok"
    /\ watch_new(s)

\* main.rs line 92: handle.join() returns when the watch thread's closure
\* has, which is when its watch() call has returned
Joined == pc[1] = "done"

\* main() before Taiwu::new(), over a save tree with no save file or with
\* that of slot 1
InitHost == InitAt({{}, {1}}, "new")

\* the steps of the main thread and of the watch thread
HostStep ==
    \/ main_new
    \/ main_backup_once
    \/ backup_once_step(WallClock)
    \/ main_watch(1)
    \/ watch_lock(1)
    \/ watch_store(1)
    \/ watch_recv(1)
    \/ process(1, WallClock)

\* the steps of an unwatch() call the tray thread has begun
TrayStep ==
    \/ unwatch_lock(1)
    \/ unwatch_take(1)

NextHost ==
    \/ HostStep
    \/ TrayStep
    \/ main_quit
    \/ \E msg \in WatchMessages : deliver(1, msg, MaxEvents)

\* threads that can run do run; nothing makes the user click, or the save
\* tree change
SpecHost ==
    InitHost /\ [][NextHost]_vars /\ WF_vars(HostStep) /\ WF_vars(TrayStep)

(* ------------------------------- claims -------------------------------- *)

\* the documented layout, written out: <root>/Save/world_<k>/local.sav and
\* <BackupRoot>/world_<k>/local.sav.<timestamp>
DocFolder(k) == <<"world_1", "world_2", "world_3", "world_4", "world_5">>[k]

DocSavePath(k) == <<"game", "Save", DocFolder(k), "local.sav">>

DocArtifact(k, timestamp) ==
    <<"data", "TaiwuBackup", "BackupData", DocFolder(k),
      "local.sav." \o ToString(timestamp)>>

DocTracked == {DocSavePath(k) : k \in Slots}

\* the backup() invocations of one thread, in order
LogOf(by) == SelectSeq(log, LAMBDA e : e.by = by)

\* the log indexes of the backup() invocations of one thread
LogIndexes(by) == {i \in DOMAIN log : log[i].by = by}

\* a content-modify event on one tracked path
IsTrackedModify(msg) ==
    /\ msg.ok
    /\ msg.event.kind = "Modify(Any)"
    /\ Len(msg.event.paths) = 1
    /\ msg.event.paths[1] \in DocTracked

\* C1 (specification SpecHost): once unwatch() has released the handle
\* while watch() is blocked on receive with an empty queue, watch()
\* eventually returns Ok; from the release on the handle slot is empty, and
\* an unwatch() that finds the slot empty changes nothing but its own
\* position and the lock it gives back.
ReleasedWhileBlocked ==
    /\ pc[1] = "recv"
    /\ chan[1] = <<>>
    /\ 1 \notin alive

Released ==
    /\ pc[1] \in {"recv", "process", "done"}
    /\ 1 \notin alive

C1_UnwatchEndsBlockedWatch ==
    /\ ReleasedWhileBlocked ~> (pc[1] = "done" /\ ret[1] = "Ok")
    /\ [](ReleasedWhileBlocked => watcher = 0)
    /\ [][Released => (Released' /\ watcher' = 0)]_vars
    /\ [][(watcher = 0 /\ upc[1] = "take" /\ upc'[1] = "idle")
            => UNCHANGED <<saves, fsvars, watcher, alive, pc, ret, cur, chan,
                           sent, nrecv, asked, once>>]_vars

\* C1 witness: watch() has returned Ok after such a release, and a later
\* unwatch() call is at its take with the slot empty
C1_Witness ==
    /\ pc[1] = "done"
    /\ ret[1] = "Ok"
    /\ nrecv[1] = 0
    /\ watcher = 0
    /\ upc[1] = "take"

\* C2 (specification SpecHost): a failed backup made for a notification ends
\* that watch() call with the IO error; the call takes no further message
\* from its channel and makes no further backup.
C2_BackupFailureEndsWatch ==
    \A s \in Sessions : \A i \in LogIndexes(WatchThread(s)) :
        log[i].res # "ok" =>
            /\ pc[s] = "done"
            /\ ret[s] = "IoError"
            /\ nrecv[s] = log[i].ev
            /\ \A j \in LogIndexes(WatchThread(s)) : j <= i
            /\ \A f \in store : f.by > i => log[f.by].by # WatchThread(s)

\* C2 witness: a watch() call ended by a failed backup while a message
\* delivered after the failing one was waiting
C2_Witness ==
    \E s \in Sessions : \E i \in LogIndexes(WatchThread(s)) :
        /\ log[i].res # "ok"
        /\ ret[s] = "IoError"
        /\ Len(sent[s]) > nrecv[s]

\* how often a path is listed by an event
Occurrences(path, paths) == Cardinality({i \in DOMAIN paths : paths[i] = path})

\* the backup() invocations made for a source path
BackupsOf(path) == Cardinality({i \in DOMAIN log : log[i].src = path})

\* C3 (specification SpecProcess): for the one message of any kind over any
\* paths a watch() call has taken: a content-modify event is backed up once
\* per listing of a tracked path; a rename-from event, an event of any
\* other kind, and any path outside the five tracked paths cause no backup,
\* no artifact and no error return, so the loop keeps running.
C3_Classification ==
    (nrecv[1] = 1 /\ sent[1][1].ok) =>
        LET ev == sent[1][1].event
            actionable ==
                /\ ev.kind = "Modify(Any)"
                /\ \E i \in DOMAIN ev.paths : ev.paths[i] \in DocTracked
        IN  /\ ~actionable =>
                /\ log = <<>>
                /\ store = {}
                /\ ret[1] \in {"none", "Ok"}
            /\ \A path \in WatchedPaths \ DocTracked : BackupsOf(path) = 0
            /\ (ev.kind = "Modify(Any)" /\ pc[1] = "recv") =>
                \A path \in DocTracked :
                    BackupsOf(path) = Occurrences(path, ev.paths)

\* C3 witness: a rename-from event on a tracked path has been processed,
\* nothing was backed up and the loop is waiting for the next message
C3_Witness ==
    /\ nrecv[1] = 1
    /\ sent[1][1] = OkMsg(Event("Modify(Name(From))", <<DocSavePath(2)>>))
    /\ pc[1] = "recv"
    /\ 1 \in alive
    /\ log = <<>>

\* C4 (specification SpecProcess): for every slot k, once watch() has
\* processed one content-modify event for <root>/Save/world_k/local.sav
\* whose copy succeeded, the backup tree holds exactly one artifact, it is
\* <BackupRoot>/world_k/local.sav.<timestamp>, and so none lies under
\* another slot's folder.
C4_OneArtifactInSlotFolder ==
    \A k \in Slots :
        (/\ sent[1] = <<OkMsg(Event("Modify(Any)", <<DocSavePath(k)>>))>>
         /\ nrecv[1] = 1
         /\ log # <<>>
         /\ log[1].res = "ok")
        => store = {[path |-> DocArtifact(k, clock), by |-> 1]}

\* C4 witness: the event for slot 4 processed, its copy done
C4_Witness ==
    /\ sent[1] = <<OkMsg(Event("Modify(Any)", <<DocSavePath(4)>>))>>
    /\ pc[1] = "recv"
    /\ Len(log) = 1
    /\ log[1].res = "ok"
    /\ Cardinality(store) = 1

\* the artifacts under slot k's folder written since the current
\* backup_once() call began
OnceArtifacts(k) ==
    {f \in store : f.by > once.base /\ f.path[Len(f.path) - 1] = DocFolder(k)}

\* C5 (specification SpecOnce): over every set of existing save files, a
\* backup_once() call in which no backup failed returns Ok, and a call
\* that returned Ok has created exactly one artifact for each slot whose
\* save file exists and none for any other slot.
C5_OnceBacksUpExistingSlots ==
    once.pc = "done" =>
        /\ (\A i \in (once.base + 1)..Len(log) : log[i].res = "ok")
                => once.ret = "Ok"
        /\ once.ret = "Ok" =>
                \A k \in Slots :
                    Cardinality(OnceArtifacts(k)) = IF k \in saves THEN 1 ELSE 0

\* C5 witness: only slots 1 and 3 exist and backup_once() returned Ok with
\* two artifacts
C5_Witness ==
    /\ saves = {1, 3}
    /\ once.pc = "done"
    /\ once.ret = "Ok"
    /\ once.calls = 1
    /\ Cardinality(store) = 2

\* the slot of a tracked path
DocSlot(path) == CHOOSE k \in Slots : DocSavePath(k) = path

\* C6 (specification SpecOnce): the backups of one backup_once() call are
\* of existing save files in ascending slot order; only the last of them
\* can have failed, and then the call has returned the IO error with no
\* later slot attempted; the call returns Ok only if none failed; the
\* artifacts written for the earlier slots stay in place.
C6_OnceFailFast ==
    LET first == once.base + 1
        last == Len(log)
    IN  /\ \A i \in first..last : log[i].src \in DocTracked
        /\ \A i, j \in first..last :
                i < j => DocSlot(log[i].src) < DocSlot(log[j].src)
        /\ \A i \in first..last : i < last => log[i].res = "ok"
        /\ (last >= first /\ log[last].res # "ok") =>
                (once.pc = "done" /\ once.ret = "IoError")
        /\ once.ret = "Ok" => \A i \in first..last : log[i].res = "ok"
        /\ \A i \in first..last :
                log[i].res = "ok" => [path |-> log[i].dst, by |-> i] \in store

\* C6 witness: the backup of slot 3 failed after slots 1 and 2 were backed
\* up; the call has returned the error and slots 4 and 5 exist
C6_Witness ==
    /\ saves = Slots
    /\ once.calls = 1
    /\ once.pc = "done"
    /\ once.ret = "IoError"
    /\ Len(log) = 3
    /\ log[3].src = DocSavePath(3)
    /\ log[3].res = "copy_err"
    /\ Cardinality(store) = 2

\* C7 (specification SpecHost): an unwatch() call made once the watch
\* thread is running leads to watch() returning and the join completing.
C7_ShutdownNeverLost == (1 \in asked) ~> Joined

\* C8 (specification Spec): whenever no watch() call is in progress the
\* handle slot is empty and no watch is registered.
C8_IdleHasNoWatch ==
    (\A s \in Sessions : pc[s] \in {"idle", "done"})
        => (watcher = 0 /\ alive = {})

\* C9 (specification SpecHost): while the messages delivered to a watch() call
\* are all content-modify events on one tracked path each and no copy has
\* failed, the call's backups are, in order, of the paths of the messages
\* in delivery order, one per message; the backup for a message is made
\* before the next message is taken; with the channel drained there are as
\* many backups as messages.
C9_InOrderNoCoalescing ==
    \A s \in Sessions :
        LET made == LogOf(WatchThread(s))
        IN  (/\ \A i \in DOMAIN sent[s] : IsTrackedModify(sent[s][i])
             /\ \A i \in DOMAIN made : made[i].res = "ok")
            => /\ Len(made) <= Len(sent[s])
               /\ \A i \in DOMAIN made :
                    /\ made[i].ev = i
                    /\ made[i].src = sent[s][i].event.paths[1]
               /\ Len(made) = IF pc[s] = "process" /\ cur[s].paths # <<>>
                              THEN nrecv[s] - 1
                              ELSE nrecv[s]
               /\ (pc[s] = "recv" /\ chan[s] = <<>>)
                    => Len(made) = Len(sent[s])

\* C9 witness: two events for the save file of slot 1, one after the other,
\* each backed up in turn, after the startup backup of that slot
C9_Witness ==
    \E s \in Sessions :
        /\ Len(sent[s]) = 2
        /\ \A i \in DOMAIN sent[s] : IsTrackedModify(sent[s][i])
        /\ sent[s][1].event.paths[1] = DocSavePath(1)
        /\ sent[s][2].event.paths[1] = DocSavePath(1)
        /\ pc[s] = "recv"
        /\ chan[s] = <<>>
        /\ Len(LogOf(WatchThread(s))) = 2
        /\ \A i \in DOMAIN log : log[i].res = "ok"
        /\ Cardinality(store) = Len(log)

\* C10 (specification SpecHost): a delivery error taken by watch() causes no
\* backup and no return: watch() returns an IO error only after a failed
\* backup of its own and a notify error only before it took any message;
\* every message delivered to a running call is taken or still queued; and
\* with the channel drained and no backup failed, every content-modify
\* event on a tracked path, those delivered after an error included, has
\* its backup.
C10_DeliveryErrorSkipped ==
    \A s \in Sessions :
        /\ \A i \in LogIndexes(WatchThread(s)) : sent[s][log[i].ev].ok
        /\ ret[s] = "IoError" =>
                \E i \in LogIndexes(WatchThread(s)) : log[i].res # "ok"
        /\ ret[s] \notin {"none", "Ok", "IoError"} => nrecv[s] = 0
        /\ pc[s] \in {"recv", "process"} =>
                Len(sent[s]) = nrecv[s] + Len(chan[s])
        /\ (/\ pc[s] = "recv"
            /\ chan[s] = <<>>
            /\ \A i \in LogIndexes(WatchThread(s)) : log[i].res = "ok")
           => \A m \in DOMAIN sent[s] :
                IsTrackedModify(sent[s][m]) =>
                    \E i \in LogIndexes(WatchThread(s)) : log[i].ev = m

\* C10 witness: a delivery error, then a content-modify event, both taken;
\* the event is backed up and the loop is waiting
C10_Witness ==
    \E s \in Sessions :
        /\ sent[s] = <<ErrMsg, OkMsg(Event("Modify(Any)", <<DocSavePath(1)>>))>>
        /\ pc[s] = "recv"
        /\ chan[s] = <<>>
        /\ s \in alive
        /\ Len(LogOf(WatchThread(s))) = 1
        /\ LogOf(WatchThread(s))[1].res = "ok"
        /\ LogOf(WatchThread(s))[1].ev = 2

\* C11 (specification SpecAgain): provided each backup read the clock later
\* than the backup before it, any two backups of the same source have
\* distinct artifact names, and every artifact a backup wrote is still in
\* the backup tree as that backup wrote it, so a second backup_once() has
\* overwritten nothing of the first.
ClockAdvanced == \A i, j \in DOMAIN log : i < j => log[i].at < log[j].at

Wrote(i) == log[i].res \in {"ok", "copy_partial"}

C11_DistinctNamesWhileClockAdvances ==
    ClockAdvanced =>
        /\ \A i, j \in DOMAIN log :
                (i < j /\ log[i].src = log[j].src)
                    => FileName(log[i].dst) # FileName(log[j].dst)
        /\ \A i \in DOMAIN log :
                Wrote(i) => [path |-> log[i].dst, by |-> i] \in store

\* C11 witness: a first backup_once() call over slots 1 and 3 returned Ok;
\* the second call has backed up slot 1 again, each backup at a later
\* reading than the one before; the three artifacts are in the backup tree
C11_Witness ==
    /\ saves = {1, 3}
    /\ once.calls = 2
    /\ once.base = 2
    /\ Len(log) = 3
    /\ \A i \in DOMAIN log : log[i].res = "ok"
    /\ log[1].src = log[3].src
    /\ Cardinality(store) = 3
    /\ ClockAdvanced

\* C12 (specification SpecBoth): every artifact a backup wrote stays in
\* the backup tree as that backup wrote it; of two backups of one slot the
\* later has the later timestamp; no two backups have the same destination.
C12_ArtifactsNeverOverwritten ==
    /\ \A i \in DOMAIN log :
            Wrote(i) => [path |-> log[i].dst, by |-> i] \in store
    /\ \A i, j \in DOMAIN log :
            (i < j /\ log[i].src = log[j].src) => log[i].at < log[j].at
    /\ \A i, j \in DOMAIN log : i < j => log[i].dst # log[j].dst

\* C13 (specification Spec): at most one watcher created by the instance's
\* watch() calls is registered with the OS at any time.
C13_AtMostOneWatch == Cardinality(alive) <= 1

\* C14 (specification SpecRace): under concurrent watch() and unwatch() calls,
\* the thread at the take is the one holding the lock, so at most one is
\* there; the slot never holds a watcher already released; a take that
\* finds a watcher releases that one and leaves the slot empty in the same
\* step; a released watcher is never live again; and a take that finds the
\* slot empty changes nothing but the caller's position and the lock it
\* gives back.
C14_UnwatchReleasesOnce ==
    /\ [](\A u \in Unwatchers : upc[u] = "take" <=> lock = UnwatchThread(u))
    /\ [](watcher # 0 => watcher \in alive)
    /\ [][\A u \in Unwatchers :
            (upc[u] = "take" /\ upc'[u] = "idle") =>
                IF watcher # 0
                THEN /\ watcher \in alive
                     /\ watcher' = 0
                     /\ alive' = alive \ {watcher}
                ELSE UNCHANGED <<saves, fsvars, watcher, alive, pc, ret, cur,
                                 chan, sent, nrecv, asked, once>>]_vars
    /\ [][\A s \in Sessions :
            (s \notin alive /\ pc[s] # "idle") => s \notin alive']_vars

\* C14 witness: the watcher of a running watch() call has been released by
\* one unwatch() call; a second is at its take and finds the slot empty
C14_Witness ==
    /\ pc[1] = "recv"
    /\ 1 \notin alive
    /\ watcher = 0
    /\ upc[1] = "idle"
    /\ upc[2] = "take"

\* C15 (specification SpecProcess): once watch() has processed a message
\* carrying one tracked path, the path has been backed up once if the
\* event is of any modify kind other than rename-from, and not at all if
\* it is rename-from.
C15_EveryModifyKindActionable ==
    (/\ nrecv[1] = 1
     /\ pc[1] = "recv"
     /\ sent[1][1].ok
     /\ sent[1][1].event.kind \in ModifyKinds
     /\ Len(sent[1][1].event.paths) = 1
     /\ sent[1][1].event.paths[1] \in DocTracked)
    => Len(log) = IF sent[1][1].event.kind = "Modify(Name(From))" THEN 0 ELSE 1

\* C16 (specification SpecProcess): every source passed to backup(), by
\* backup_once() or by the processing of a notification, exists as a file.
C16_WriterPrecededByCheck ==
    \A i \in DOMAIN log : \E k \in saves : log[i].src = DocSavePath(k)

\* the tracked paths among the paths of an event, in the order listed
TrackedOf(paths) == SelectSeq(paths, LAMBDA path : path \in DocTracked)

\* C17 (specification SpecProcess): for the one event a watch() call has
\* taken, the backups made are of the tracked paths the event lists, in
\* the order listed and one per listing, if the event is content-modify,
\* and none otherwise; while the event is being processed the backups
\* made are those of the paths already passed; a failed backup is the
\* last one, and the call has then returned the IO error with the paths
\* after it left unprocessed; when the event is done with no failure, all
\* its tracked paths are backed up.
C17_PathByPathInOrder ==
    (nrecv[1] = 1 /\ sent[1][1].ok) =>
        LET ev == sent[1][1].event
            acts == IF ev.kind = "Modify(Any)" THEN TrackedOf(ev.paths)
                    ELSE <<>>
            left == IF ev.kind = "Modify(Any)" THEN TrackedOf(cur[1].paths)
                    ELSE <<>>
        IN  /\ Len(log) <= Len(acts)
            /\ \A i \in DOMAIN log :
                    /\ log[i].src = acts[i]
                    /\ i < Len(log) => log[i].res = "ok"
            /\ pc[1] = "process" => Len(log) = Len(acts) - Len(left)
            /\ (log # <<>> /\ log[Len(log)].res # "ok")
                    => (pc[1] = "done" /\ ret[1] = "IoError")
            /\ pc[1] = "recv" =>
                    /\ Len(log) = Len(acts)
                    /\ \A i \in DOMAIN log :
                            /\ log[i].res = "ok"
                            /\ \E f \in store : f.path = log[i].dst

\* C17 witness: a content-modify event naming the save files of slots 3
\* and 1, in that order, processed: two backups, of slot 3 then of slot 1,
\* here under one clock reading
C17_Witness ==
    /\ sent[1] = <<OkMsg(Event("Modify(Any)",
                               <<DocSavePath(3), DocSavePath(1)>>))>>
    /\ pc[1] = "recv"
    /\ Len(log) = 2
    /\ log[1].src = DocSavePath(3)
    /\ log[2].src = DocSavePath(1)
    /\ log[1].at = log[2].at
    /\ Cardinality(store) = 2

\* C18 (specification SpecHost): the startup backup is called once and no
\* more, and, the instance constructed, it is called and does return;
\* watch() has begun only if that one call has returned, and returned Ok,
\* so after an error return, as after a failed construction, watch() is
\* never begun; every backup of the startup call precedes every backup
\* made by the watch thread.
C18_StartupBackupBeforeWatch ==
    /\ [](once.calls <= 1)
    /\ [](pc[1] # "idle" =>
            (once.calls = 1 /\ once.pc = "done" /\ once.ret = "Ok"))
    /\ [](once.ret \notin {"none", "Ok"} => pc[1] = "idle")
    /\ [](\A i, j \in DOMAIN log :
            (log[i].by = OnceThread /\ log[j].by = WatchThread(1)) => i < j)
    /\ (once.pc = "idle") ~> (once.pc = "done" /\ once.calls = 1)

\* C18 witness: the startup backup has backed up slot 1 and returned Ok;
\* the watch thread, started after it, has made a backup
C18_Witness ==
    /\ once.calls = 1
    /\ once.ret = "Ok"
    /\ Len(log) = 2
    /\ log[1].by = OnceThread
    /\ log[2].by = WatchThread(1)
    /\ log[2].res = "ok"
    /\ pc[1] = "recv"

\* C19 (specification SpecHost): the release of the handle by unwatch()
\* leaves the channel, the event in hand and the backup tree as they are;
\* every message delivered to a running watch() call is taken or still
\* queued, before and after the release; the call's backups follow the
\* order of the messages; once the handle is released the call does
\* return; it returns Ok only with every delivered message taken and every
\* content-modify event among them backed up, and an IO error only after
\* a failed backup of its own.
C19_QueuedProcessedAfterUnwatch ==
    /\ [][(upc[1] = "take" /\ upc'[1] = "idle")
            => UNCHANGED <<chan, sent, nrecv, cur, pc, ret, fsvars>>]_vars
    /\ [](pc[1] \in {"recv", "process"}
            => Len(sent[1]) = nrecv[1] + Len(chan[1]))
    /\ [](\A i, j \in LogIndexes(WatchThread(1)) :
            i < j => log[i].ev <= log[j].ev)
    /\ (Released /\ pc[1] # "done") ~> (pc[1] = "done")
    /\ []((pc[1] = "done" /\ ret[1] = "Ok") =>
            /\ nrecv[1] = Len(sent[1])
            /\ \A m \in DOMAIN sent[1] :
                    IsTrackedModify(sent[1][m]) =>
                        \E i \in LogIndexes(WatchThread(1)) :
                            /\ log[i].ev = m
                            /\ log[i].res = "ok"
                            /\ \E f \in store : f.path = log[i].dst)
    /\ []((pc[1] = "done" /\ ret[1] = "IoError") =>
            \E i \in LogIndexes(WatchThread(1)) : log[i].res # "ok")

\* C19 witness: unwatch() has released the handle and returned; the watch
\* thread is about to back up an event delivered before the release, and
\* another event is still queued behind it
C19_Witness ==
    /\ Released
    /\ watcher = 0
    /\ upc[1] = "idle"
    /\ pc[1] = "process"
    /\ cur[1].kind = "Modify(Any)"
    /\ cur[1].paths # <<>>
    /\ Len(chan[1]) = 1
    /\ IsTrackedModify(chan[1][1])
    /\ store = {}

\* C20 (specification SpecHost): a watch() call holds the lock exactly
\* while it is at the store of its handle, so never while it waits on the
\* channel or makes a backup; an unwatch() caller holds it exactly while
\* at its take; and every unwatch() call that waits for the lock gets it
\* and returns.
C20_LockNeverDeadlocks ==
    /\ [](\A s \in Sessions : lock = WatchThread(s) <=> pc[s] = "store")
    /\ [](\A u \in Unwatchers : lock = UnwatchThread(u) <=> upc[u] = "take")
    /\ [](lock \in {NoThread, WatchThread(1), UnwatchThread(1)})
    /\ (upc[1] = "lock") ~> (upc[1] = "take")
    /\ (upc[1] # "idle") ~> (upc[1] = "idle")

\* C20 witness: unwatch() is waiting for the lock while the watch thread
\* holds it to store its handle
C20_Witness ==
    /\ pc[1] = "store"
    /\ lock = WatchThread(1)
    /\ upc[1] = "lock"

=============================================================================
